---- MODULE Spec2Model ----
(***************************************************************************)
(* Model of filip/models/ngsi_v2/context.py: the NGSIv2 attribute model    *)
(* (ContextAttribute and its value coercion) and the entity model          *)
(* (ContextEntity with add/get/delete of attributes).                      *)
(*                                                                         *)
(* Python values are tagged records: k is the Python type of the value.    *)
(* A float is kept as a number of halves (h = 41 is 20.5), so that the     *)
(* casts between int, float and str do what Python does on them.           *)
(***************************************************************************)
EXTENDS Integers, Sequences, FiniteSets, TLC

\* ---------------------------------------------------------------- bounds
\* largest magnitude of the numbers whose text float() and int() can parse
MaxNum == 21
\* longest list given as a raw attribute value
MaxListLen == 2
\* longest list given to add_attributes / delete_attributes
MaxArgLen == 2
\* longest string drawn from the alphabet of the names
MaxNameLen == 2

\* ---------------------------------------------------------------- values
VNone == [k |-> "none"]
VBool(b) == [k |-> "bool", b |-> b]
VInt(n) == [k |-> "int", n |-> n]
VFloat(h) == [k |-> "float", h |-> h]
VStr(s) == [k |-> "str", s |-> s]
VList(items) == [k |-> "list", items |-> items]
VTuple(items) == [k |-> "tuple", items |-> items]

Ok(v) == [ok |-> TRUE, v |-> v]
Err(e) == [ok |-> FALSE, err |-> e]

IsNum(v) == v.k \in {"bool", "int", "float"}

\* the number a bool, int or float stands for, in halves
Halves(v) ==
  CASE v.k = "bool" -> (IF v.b THEN 2 ELSE 0)
    [] v.k = "int" -> 2 * v.n
    [] v.k = "float" -> v.h

\* Python's == on scalars: True == 1 == 1.0, a str only equals a str
PyEqScalar(a, b) ==
  IF IsNum(a) /\ IsNum(b) THEN Halves(a) = Halves(b)
  ELSE IF a.k = "str" /\ b.k = "str" THEN a.s = b.s
  ELSE a.k = "none" /\ b.k = "none"

\* Python's == on values: lists compare element-wise, a list never equals a tuple
PyEq(a, b) ==
  IF a.k \in {"list", "tuple"} \/ b.k \in {"list", "tuple"}
  THEN /\ a.k = b.k
       /\ Len(a.items) = Len(b.items)
       /\ \A i \in 1..Len(a.items) : PyEqScalar(a.items[i], b.items[i])
  ELSE PyEqScalar(a, b)

\* truth value of a Python object, as tested by `if value:`
Truthy(v) ==
  CASE v.k = "none" -> FALSE
    [] v.k = "bool" -> v.b
    [] v.k = "int" -> v.n # 0
    [] v.k = "float" -> v.h # 0
    [] v.k = "str" -> v.s # ""
    [] v.k \in {"list", "tuple"} -> Len(v.items) > 0

\* ------------------------------------------------------- Python builtins
\* text of an int: str(20) = "20"
IntStr(n) == ToString(n)

\* text of a float: str(20.0) = "20.0", str(20.5) = "20.5", str(-0.5) = "-0.5"
FloatStr(h) ==
  LET a == IF h < 0 THEN 0 - h ELSE h
      body == ToString(a \div 2) \o (IF a % 2 = 0 THEN ".0" ELSE ".5")
  IN IF h < 0 THEN "-" \o body ELSE body

\* str(x) of a scalar
PyStrScalar(v) ==
  CASE v.k = "none" -> "None"
    [] v.k = "bool" -> (IF v.b THEN "True" ELSE "False")
    [] v.k = "int" -> IntStr(v.n)
    [] v.k = "float" -> FloatStr(v.h)
    [] v.k = "str" -> v.s

\* repr(x) of a scalar, as used for the elements inside str(list)
PyRepr(v) == IF v.k = "str" THEN "'" \o v.s \o "'" ELSE PyStrScalar(v)

RECURSIVE JoinRepr(_)
JoinRepr(items) ==
  IF Len(items) = 0 THEN ""
  ELSE IF Len(items) = 1 THEN PyRepr(items[1])
  ELSE PyRepr(items[1]) \o ", " \o JoinRepr(Tail(items))

\* str(x)
PyStr(v) ==
  CASE v.k = "list" -> "[" \o JoinRepr(v.items) \o "]"
    [] v.k = "tuple" ->
         "(" \o JoinRepr(v.items) \o (IF Len(v.items) = 1 THEN ",)" ELSE ")")
    [] OTHER -> PyStrScalar(v)

\* the text of every int and float (in halves) that float() and int() can parse
IntTexts == [n \in (0 - MaxNum)..MaxNum |-> IntStr(n)]
FloatTexts == [h \in (0 - 2 * MaxNum)..(2 * MaxNum) |-> FloatStr(h)]

\* the ints and floats (in halves) whose text is s
IntsOfText(s) == {n \in DOMAIN IntTexts : IntTexts[n] = s}
FloatsOfText(s) == {h \in DOMAIN FloatTexts : FloatTexts[h] = s}

\* float(x): a number is converted, a str is parsed, anything else is a TypeError
PyFloat(v) ==
  IF IsNum(v) THEN Ok(VFloat(Halves(v)))
  ELSE IF v.k = "str"
  THEN IF IntsOfText(v.s) # {}
       THEN Ok(VFloat(2 * (CHOOSE n \in IntsOfText(v.s) : TRUE)))
       ELSE IF FloatsOfText(v.s) # {}
       THEN Ok(VFloat(CHOOSE h \in FloatsOfText(v.s) : TRUE))
       ELSE Err("ValueError")
  ELSE Err("TypeError")

\* int(x): a float is truncated towards zero, a str must be the text of an int
PyInt(v) ==
  IF v.k = "float"
  THEN Ok(VInt(IF v.h < 0 THEN 0 - ((0 - v.h) \div 2) ELSE v.h \div 2))
  ELSE IF IsNum(v) THEN Ok(VInt(Halves(v) \div 2))
  ELSE IF v.k = "str"
  THEN IF IntsOfText(v.s) # {}
       THEN Ok(VInt(CHOOSE n \in IntsOfText(v.s) : TRUE))
       ELSE Err("ValueError")
  ELSE Err("TypeError")

\* bool(x)
PyBool(v) == Ok(VBool(Truthy(v)))

\* ------------------------------------------------------ type vocabulary
\* DataType: the enumerated NGSI attribute types (filip.models.base)
DataType == {"Text", "Boolean", "Number", "Float", "Integer", "DateTime",
             "Array", "StructuredValue", "Relationship", "command"}

\* an attribute type outside the enumeration: type is Union[DataType, str]
FreeFormTypes == {"MyCustomType"}
AttrTypes == DataType \cup FreeFormTypes

\* --------------------------------------- json.dumps / json.loads (l.199-203)
\* JSON text, as the tokens json.dumps writes
JsonDumpsScalar(v) ==
  CASE v.k = "none" -> [t |-> "null"]
    [] v.k = "bool" -> [t |-> (IF v.b THEN "true" ELSE "false")]
    [] v.k = "int" -> [t |-> "num", text |-> IntStr(v.n)]
    [] v.k = "float" -> [t |-> "num", text |-> FloatStr(v.h)]
    [] v.k = "str" -> [t |-> "str", s |-> v.s]

\* a tuple is written as a JSON array, like a list
JsonDumps(v) ==
  IF v.k \in {"list", "tuple"}
  THEN [t |-> "arr", elems |-> [i \in 1..Len(v.items) |-> JsonDumpsScalar(v.items[i])]]
  ELSE JsonDumpsScalar(v)

\* a JSON number without fraction is read as an int, any other as a float
JsonLoadsScalar(j) ==
  CASE j.t = "null" -> VNone
    [] j.t = "true" -> VBool(TRUE)
    [] j.t = "false" -> VBool(FALSE)
    [] j.t = "str" -> VStr(j.s)
    [] j.t = "num" ->
         IF IntsOfText(j.text) # {}
         THEN VInt(CHOOSE n \in IntsOfText(j.text) : TRUE)
         ELSE VFloat(CHOOSE h \in FloatsOfText(j.text) : TRUE)

JsonLoads(j) ==
  IF j.t = "arr"
  THEN VList([i \in 1..Len(j.elems) |-> JsonLoadsScalar(j.elems[i])])
  ELSE JsonLoadsScalar(j)

\* ---------------------- the declared type of ContextAttribute.value (l.155-157)
\* the strings pydantic reads as a bool, after lower-casing
BOOL_TRUE == {"1", "on", "t", "true", "y", "yes"}
BOOL_FALSE == {"0", "off", "f", "false", "n", "no"}

\* str.lower() on the strings of the model
Lower(s) ==
  CASE s = "True" -> "true"
    [] s = "False" -> "false"
    [] s = "OtherEntity" -> "otherentity"
    [] OTHER -> s

\* a failed cast is reported under the validator's own error
OrError(r, e) == IF r.ok THEN r ELSE Err(e)

\* member float of the Union: float(v)
float_validator(v) ==
  IF v.k = "float" THEN Ok(v) ELSE OrError(PyFloat(v), "FloatError")

\* member int of the Union: int(v)
int_validator(v) ==
  IF v.k = "int" THEN Ok(v) ELSE OrError(PyInt(v), "IntegerError")

\* member bool of the Union: True, False or one of the bool strings
bool_validator(v) ==
  IF v.k = "bool" THEN Ok(v)
  ELSE IF v.k = "str" /\ Lower(v.s) \in BOOL_TRUE THEN Ok(VBool(TRUE))
  ELSE IF v.k = "str" /\ Lower(v.s) \in BOOL_FALSE THEN Ok(VBool(FALSE))
  ELSE Err("BoolError")

\* member str of the Union
str_validator(v) ==
  IF v.k = "str" THEN Ok(v)
  ELSE IF IsNum(v) THEN Ok(VStr(PyStrScalar(v)))
  ELSE Err("StrError")

\* member List of the Union (List[Any]): a tuple becomes a list, elements are kept
list_validator(v) ==
  IF v.k = "list" THEN Ok(v)
  ELSE IF v.k = "tuple" THEN Ok(VList(v.items))
  ELSE Err("ListError")

\* Optional[Union[float, int, bool, str, List, ...]]: None is allowed, any other
\* value is given to the members from left to right and the first success is kept
FirstOk(r, others) == IF r.ok THEN r ELSE others
ValueField(v) ==
  IF v.k = "none" THEN Ok(v)
  ELSE FirstOk(float_validator(v),
       FirstOk(int_validator(v),
       FirstOk(bool_validator(v),
       FirstOk(str_validator(v),
       FirstOk(list_validator(v), Err("ValidationError"))))))

\* ------------------------------------- ContextAttribute (context.py l.115-223)
\* str(item) taken as repr(item): a string keeps its quotes
StrCastRepr(v) == Ok(VStr(IF v.k \in {"list", "tuple"} THEN PyStr(v) ELSE PyRepr(v)))

\* str(item), as a value
StrCast(v) == Ok(VStr(PyStr(v)))

\* the list of the casts, or the error of the first cast that failed
CastList(rs) ==
  IF \A i \in 1..Len(rs) : rs[i].ok
  THEN Ok(VList([i \in 1..Len(rs) |-> rs[i].v]))
  ELSE Err(rs[CHOOSE i \in 1..Len(rs) : ~rs[i].ok /\ \A j \in 1..(i - 1) : rs[j].ok].err)

\* the cast of one item under a type: str, bool, float or int
Cast(type_, item) ==
  CASE type_ = "Text" -> StrCast(item)
    [] type_ = "Boolean" -> PyBool(item)
    [] type_ \in {"Number", "Float"} -> PyFloat(item)
    [] OTHER -> PyInt(item)

\* [cast(item) for item in value] for a list, cast(value) otherwise
CastValue(type_, value) ==
  IF value.k = "list"
  THEN CastList([i \in 1..Len(value.items) |-> Cast(type_, value.items[i])])
  ELSE Cast(type_, value)

\* validator for field 'value': runs on the value the field type has produced
validate_value_type(value, type_) ==
  IF Truthy(value)
  THEN CASE type_ \in {"Text", "Boolean", "Number", "Float", "Integer"} ->
              CastValue(type_, value)
         [] type_ = "DateTime" -> Ok(value)
         [] type_ = "Array" ->
              IF value.k = "list" THEN Ok(value) ELSE Err("TypeError")
         [] type_ = "StructuredValue" -> Ok(JsonLoads(JsonDumps(value)))
         [] OTHER -> Ok(JsonLoads(JsonDumps(value)))
  ELSE Ok(value)

\* ------------------------------------------------- Python dicts
\* a Python dict keeps its keys in insertion order: a sequence of [key, val]
DictKeys(d) == {d[i].key : i \in 1..Len(d)}
DictHas(d, k) == k \in DictKeys(d)
DictGet(d, k) == d[CHOOSE i \in 1..Len(d) : d[i].key = k].val
DictSet(d, k, v) ==
  IF DictHas(d, k)
  THEN [i \in 1..Len(d) |-> IF d[i].key = k THEN [key |-> k, val |-> v] ELSE d[i]]
  ELSE Append(d, [key |-> k, val |-> v])
DictDelMatch(e, k) == e.key # k
DictDel(d, k) == SelectSeq(d, LAMBDA e : DictDelMatch(e, k))

\* the keys of a sequence of [key, val] in order of first occurrence
RECURSIVE DictOf(_)
DictOf(pairs) ==
  IF Len(pairs) = 0 THEN <<>>
  ELSE LET n == Len(pairs)
       IN DictSet(DictOf(SubSeq(pairs, 1, n - 1)), pairs[n].key, pairs[n].val)

\* ------------------------------------------ FIWARE-safe strings
\* the characters FiwareRegex.standard rejects: whitespace and control
\* characters, and & ? / #
StopChars == {" ", "\t", "\n", "&", "?", "/", "#"}
Chars(s) == {SubSeq(s, i, i) : i \in 1..Len(s)}
standard(s) == Chars(s) \cap StopChars = {}

\* Field(min_length=1, max_length=256, regex=...)
min_length == 1
max_length == 256
InLength(s) == Len(s) >= min_length /\ Len(s) <= max_length
FiwareSafe(s) == InLength(s) /\ standard(s)

\* ------------------------------------- ContextMetadata (context.py l.56-112)
\* an object json.dumps cannot write
VObject == [k |-> "object"]
Serializable(v) ==
  /\ v.k # "object"
  /\ v.k \in {"list", "tuple"} => \A i \in 1..Len(v.items) : v.items[i].k # "object"

\* the field type of ContextMetadata: None or a FIWARE-safe string
MetadataTypeField(v) ==
  IF v.k = "none" THEN Ok(v)
  ELSE IF v.k = "str" /\ FiwareSafe(v.s) THEN Ok(v)
  ELSE Err("ValidationError")

\* validate_value: assert json.dumps(value); not run for None
validate_value(v) ==
  IF v.k = "none" \/ Serializable(v) THEN Ok(v) ELSE Err("TypeError")

MetadataOf(type_, value) ==
  IF type_.ok /\ value.ok THEN Ok([type |-> type_.v, value |-> value.v])
  ELSE Err("ValidationError")

\* ContextMetadata(**data): a field that is not given is None, a key that is
\* no field is ignored
ContextMetadata(data) ==
  MetadataOf(IF "type" \in DOMAIN data THEN MetadataTypeField(data["type"]) ELSE Ok(VNone),
             IF "value" \in DOMAIN data THEN validate_value(data["value"]) ELSE Ok(VNone))

\* the name is a FIWARE-safe string (validate_data hands the unit names
\* unit, unitText and unitCode to validate_unit_data, which is not modelled)
NamedMetadataOf(name, md) ==
  IF md.ok /\ FiwareSafe(name)
  THEN Ok([name |-> name, type |-> md.v.type, value |-> md.v.value])
  ELSE Err("ValidationError")

\* NamedContextMetadata(**data): the name is required
NamedContextMetadata(data) ==
  IF "name" \in DOMAIN data
  THEN NamedMetadataOf(data["name"], ContextMetadata(data))
  ELSE Err("ValidationError")

\* item.dict(exclude={'name'}) of a NamedContextMetadata
NamedMetadataDictExcludeName(item) == [type |-> item.type, value |-> item.value]

\* ------------------------- the field metadata of ContextAttribute (l.162-168)
\* a Python dict of metadata: its items in insertion order
MdDict(items) == [k |-> "dict", items |-> items]
MdNamed(md) == [k |-> "named", md |-> md]
MdList(items) == [k |-> "list", items |-> items]

\* every result of a sequence of constructions, or a ValidationError
AllMade(made) ==
  IF \A i \in 1..Len(made) : made[i].ok
  THEN Ok([i \in 1..Len(made) |-> made[i].v])
  ELSE Err("ValidationError")
Keyed(keys, made) ==
  IF made.ok
  THEN Ok(MdDict([i \in 1..Len(keys) |-> [key |-> keys[i], val |-> made.v[i]]]))
  ELSE made
Listed(made) == IF made.ok THEN Ok(MdList(made.v)) ELSE made
Single(made) == IF made.ok THEN Ok(MdNamed(made.v)) ELSE made

\* Optional[Union[Dict[str, ContextMetadata], NamedContextMetadata,
\* List[NamedContextMetadata]]]: a mapping has every value made a
\* ContextMetadata, a single record is made a NamedContextMetadata (as a
\* mapping it fails on its name), a list has every entry made one
MetadataField(raw) ==
  CASE raw.k = "dict" ->
         Keyed([i \in 1..Len(raw.items) |-> raw.items[i].key],
               AllMade([i \in 1..Len(raw.items) |-> ContextMetadata(raw.items[i].val)]))
    [] raw.k = "named" -> Single(NamedContextMetadata(raw.md))
    [] raw.k = "list" ->
         Listed(AllMade([i \in 1..Len(raw.items) |-> NamedContextMetadata(raw.items[i])]))
    [] OTHER -> Err("ValidationError")

\* {item.name: ContextMetadata(**item.dict(exclude={'name'})) for item in value}
MetadataByName(items, made) ==
  IF made.ok
  THEN Ok(MdDict(DictOf([i \in 1..Len(items) |->
                           [key |-> items[i].name, val |-> made.v[i]]])))
  ELSE made
FromNamedList(items) ==
  MetadataByName(items,
                 AllMade([i \in 1..Len(items) |->
                            ContextMetadata(NamedMetadataDictExcludeName(items[i]))]))

\* validator for field 'metadata' without its first branch: a single
\* NamedContextMetadata is not wrapped into a list
validate_metadata_type_lists_only(value) ==
  CASE value.k = "dict" -> Ok(value)
    [] value.k = "list" -> FromNamedList(value.items)
    [] OTHER -> Err("TypeError")

\* validator for field 'metadata': runs on what the field type has produced
validate_metadata_type(value) ==
  CASE value.k = "named" -> FromNamedList(<<value.md>>)
    [] value.k = "dict" -> Ok(value)
    [] value.k = "list" -> FromNamedList(value.items)
    [] OTHER -> Err("TypeError")
ValidatedMetadata(field) == IF field.ok THEN validate_metadata_type(field.v) ELSE field

\* the fields of ContextAttribute
AttributeFields == {"type", "value", "metadata"}

\* ContextAttribute(**data): data maps some of the field names to raw values.
\* A field that is not given keeps its default and is not validated; a given
\* value goes through the field type and then validate_value_type.  A failing
\* validator makes the construction fail with a ValidationError.
AttributeOf(type_, value, metadata, fset) ==
  IF type_.ok /\ value.ok /\ metadata.ok
  THEN Ok([type |-> type_.v, value |-> value.v, metadata |-> metadata.v, fset |-> fset])
  ELSE IF ~value.ok /\ value.err = "KeyError" THEN Err("KeyError")
  ELSE Err("ValidationError")

\* the field type: Union[DataType, str] under the FIWARE-safe pattern; the
\* default is not validated
TypeField(data) ==
  IF "type" \notin DOMAIN data THEN Ok("Text")
  ELSE IF FiwareSafe(data["type"]) THEN Ok(data["type"])
  ELSE Err("ValidationError")

\* the validator of 'value' runs on what the field type has accepted; its
\* values['type'] is a KeyError when the type has failed its own validation
Validated(field, type_) ==
  IF ~field.ok THEN field
  ELSE IF ~type_.ok THEN Err("KeyError")
  ELSE validate_value_type(field.v, type_.v)

ContextAttribute(data) ==
  AttributeOf(TypeField(data),
              IF "value" \in DOMAIN data
              THEN Validated(ValueField(data["value"]), TypeField(data))
              ELSE Ok(VNone),
              IF "metadata" \in DOMAIN data
              THEN ValidatedMetadata(MetadataField(data["metadata"]))
              ELSE Ok(MdDict(<<>>)),
              DOMAIN data \cap AttributeFields)

\* attr.dict() that forgets exclude_unset: every field is written
AttributeDictAll(attr, exclude_unset) ==
  [type |-> attr.type, value |-> attr.value, metadata |-> attr.metadata]

\* attr.dict(exclude_unset=...) of a ContextAttribute
AttributeDict(attr, exclude_unset) ==
  LET keys == IF exclude_unset THEN attr.fset ELSE AttributeFields
  IN [f \in keys |-> CASE f = "type" -> attr.type
                       [] f = "value" -> attr.value
                       [] f = "metadata" -> attr.metadata]

\* pydantic's == on two attributes: their dict() are equal
AttributeEq(a, b) ==
  /\ a.type = b.type
  /\ PyEq(a.value, b.value)
  /\ a.metadata = b.metadata

\* --------------------------- NamedContextAttribute (context.py l.226-246)
\* FiwareRegex.string_protect: the standard pattern without the tokens the
\* tests list as blocked for a name
ProtectedTokens == {"id", "type", "geo:location"}
string_protect(name) == name \notin ProtectedTokens /\ standard(name)
ProtectedName(name) == InLength(name) /\ string_protect(name)

\* the constructed attribute with its name, or the error of the construction
NamedOf(valid, name, attr) ==
  IF attr.ok /\ valid
  THEN Ok([name |-> name, type |-> attr.v.type, value |-> attr.v.value,
           metadata |-> attr.v.metadata, fset |-> attr.v.fset \cup {"name"}])
  ELSE IF ~attr.ok /\ attr.err = "KeyError" THEN attr
  ELSE Err("ValidationError")

\* a name field declared with regex=FiwareRegex.standard
NamedStandardName(name, attr) == NamedOf(FiwareSafe(name), name, attr)

\* a name pattern that rejects every colon
NamedNoColon(name, attr) ==
  NamedOf(ProtectedName(name) /\ ":" \notin Chars(name), name, attr)

\* NamedContextAttribute(name=name, **data)
Named(name, attr) == NamedOf(ProtectedName(name), name, attr)
NamedContextAttribute(name, data) == Named(name, ContextAttribute(data))

\* named.dict(exclude={'name'})
NamedDictExcludeName(named) ==
  [type |-> named.type, value |-> named.value, metadata |-> named.metadata]

\* ------------------------------ ContextEntity (context.py l.249-479)
\* ContextEntity.__fields__: the declared fields, both with allow_mutation=False
EntityFields == {"id", "type"}

\* self.__setattr__(name, value) under extra='allow', validate_assignment=True:
\* a declared field with allow_mutation=False cannot be assigned, any other
\* name is stored in __dict__ and recorded in __fields_set__
SetAttr(ent, name, value) ==
  IF name \in EntityFields
  THEN Err("TypeError")
  ELSE Ok([d |-> DictSet(ent.d, name, value), fs |-> ent.fs \cup {name}])

\* a removal that ignores a missing name, like dict.pop(name, None)
DelAttrLenient(ent, name) == Ok([d |-> DictDel(ent.d, name), fs |-> ent.fs])

\* delattr(self, name): removes the name from __dict__, whatever it is;
\* an AttributeError when it is not there
DelAttr(ent, name) ==
  IF DictHas(ent.d, name)
  THEN Ok([d |-> DictDel(ent.d, name), fs |-> ent.fs])
  ELSE Err("AttributeError")

\* for key, attr in attrs.items(): self.__setattr__(name=key, value=attr)
\* the loop stops at the first error and keeps what it has done so far
RECURSIVE SetAll(_, _)
SetNext(ent, r, rest) ==
  IF r.ok THEN SetAll(r.v, rest) ELSE [ok |-> FALSE, err |-> r.err, ent |-> ent]
SetAll(ent, pairs) ==
  IF Len(pairs) = 0 THEN [ok |-> TRUE, err |-> "", ent |-> ent]
  ELSE SetNext(ent, SetAttr(ent, pairs[1].key, pairs[1].val), Tail(pairs))

\* a comprehension in which a name given twice keeps its first attribute
NamedToPairsFirst(made) ==
  DictOf([i \in 1..Len(made) |->
            [key |-> made[Len(made) + 1 - i].key, val |-> made[Len(made) + 1 - i].r.v]])

\* attrs = {attr.name: ContextAttribute(**attr.dict(exclude={'name'})) for attr in attrs}
\* given the constructed attributes: a name given twice keeps its last attribute
NamedToPairs(made) ==
  DictOf([i \in 1..Len(made) |-> [key |-> made[i].key, val |-> made[i].r.v]])

\* the rest of add_attributes for a list, once its attributes are constructed
AddMade(ent, made) ==
  IF \A i \in 1..Len(made) : made[i].r.ok
  THEN SetAll(ent, NamedToPairs(made))
  ELSE [ok |-> FALSE, err |-> "ValidationError", ent |-> ent]

\* add_attributes(attrs): attrs is [form |-> "dict", items |-> <<[key, val]>>]
\* or [form |-> "list", items |-> <<NamedContextAttribute>>]
add_attributes(ent, attrs) ==
  IF attrs.form = "list"
  THEN AddMade(ent, [i \in 1..Len(attrs.items) |->
                       [key |-> attrs.items[i].name,
                        r |-> ContextAttribute(NamedDictExcludeName(attrs.items[i]))]])
  ELSE SetAll(ent, attrs.items)

\* the names delete_attributes collects: of a list, the str entries and the
\* names of the NamedContextAttribute entries (any other entry is skipped);
\* of a mapping, its keys
\* the names of the entries without the isinstance(entry, NamedContextAttribute) branch
EntryNamesStrOnly(entry) == IF entry.e = "str" THEN <<entry.name>> ELSE <<>>

EntryNames(entry) ==
  IF entry.e = "str" THEN <<entry.name>>
  ELSE IF entry.e = "named" THEN <<entry.attr.name>>
  ELSE <<>>
RECURSIVE DeleteNames(_)
DeleteNames(attrs) ==
  IF attrs.form = "list"
  THEN IF Len(attrs.items) = 0 THEN <<>>
       ELSE EntryNames(attrs.items[1])
              \o DeleteNames([form |-> "list", items |-> Tail(attrs.items)])
  ELSE [i \in 1..Len(attrs.items) |-> attrs.items[i].key]

\* for name in names: delattr(self, name)
RECURSIVE DelAll(_, _)
DelNext(ent, r, rest) ==
  IF r.ok THEN DelAll(r.v, rest) ELSE [ok |-> FALSE, err |-> r.err, ent |-> ent]
DelAll(ent, names) ==
  IF Len(names) = 0 THEN [ok |-> TRUE, err |-> "", ent |-> ent]
  ELSE DelNext(ent, DelAttr(ent, names[1]), Tail(names))

\* delete_attributes(attrs)
delete_attributes(ent, attrs) == DelAll(ent, DeleteNames(attrs))

\* PropertyFormat: the response formats of get_attributes
PropertyFormat == {"list", "dict"}

\* an optional argument that is not given
NotGiven == [given |-> FALSE]
Given(types) == [given |-> TRUE, types |-> types]

\* the list attribute_types of get_attributes (l.387-393)
AttributeTypes(whitelist, blacklist) ==
  IF whitelist.given THEN whitelist.types
  ELSE IF blacklist.given THEN {t \in DataType : t \notin blacklist.types}
  ELSE DataType

\* the keys get_attributes keeps, in the order of self.dict(): not a declared
\* field, and of a type whose value is in attribute_types (l.397-400, l.403-406)
\* a selection that keeps every attribute, whatever its type
SelectedAnyType(e, types) == e.key \notin EntityFields

SelectedMatch(e, types) == e.key \notin EntityFields /\ e.val.type \in types
Selected(d, types) == SelectSeq(d, LAMBDA e : SelectedMatch(e, types))

\* get_attributes(whitelisted_attribute_types, blacklisted_attribute_types,
\* response_format): [ok, err, v]; v is a sequence of NamedContextAttribute for
\* the list format and a sequence of [key, val] for the dict format
\* the constructed objects, or the ValidationError of one that failed
Collected(made) ==
  IF \A i \in 1..Len(made) : made[i].r.ok
  THEN Ok([i \in 1..Len(made) |->
             IF made[i].keyed THEN [key |-> made[i].key, val |-> made[i].r.v]
             ELSE made[i].r.v])
  ELSE Err("ValidationError")

\* {key: ContextAttribute(**value) ...} or [NamedContextAttribute(name=key, **value) ...]
Respond(sel, response_format) ==
  IF response_format = "dict"
  THEN Collected([i \in 1..Len(sel) |->
                    [keyed |-> TRUE, key |-> sel[i].key,
                     r |-> ContextAttribute(AttributeDict(sel[i].val, FALSE))]])
  ELSE Collected([i \in 1..Len(sel) |->
                    [keyed |-> FALSE, key |-> sel[i].key,
                     r |-> NamedContextAttribute(sel[i].key,
                                                 AttributeDict(sel[i].val, FALSE))]])

\* get_attributes without its assertion: the whitelist silently wins
get_attributes_unchecked(ent, whitelist, blacklist, response_format) ==
  IF response_format \notin PropertyFormat THEN Err("ValueError")
  ELSE Respond(Selected(ent.d, AttributeTypes(whitelist, blacklist)), response_format)

get_attributes(ent, whitelist, blacklist, response_format) ==
  IF response_format \notin PropertyFormat THEN Err("ValueError")
  ELSE IF ~(~whitelist.given \/ ~blacklist.given) THEN Err("AssertionError")
  ELSE Respond(Selected(ent.d, AttributeTypes(whitelist, blacklist)), response_format)

\* get_attribute_names without the filter on the declared fields
get_attribute_names_all(ent) == DictKeys(ent.d)

\* get_attribute_names(): the keys of self.dict() that are no declared field
get_attribute_names(ent) == {key \in DictKeys(ent.d) : key \notin EntityFields}

\* what get_attribute returns when no attribute matches
PyNone == [name |-> "", none |-> TRUE]

\* get_attribute(attribute_name): the first match in get_attributes(), or None
FirstNamed(r, attribute_name) ==
  IF ~r.ok THEN r
  ELSE IF \E i \in 1..Len(r.v) : r.v[i].name = attribute_name
  THEN Ok(r.v[CHOOSE i \in 1..Len(r.v) :
                /\ r.v[i].name = attribute_name
                /\ \A j \in 1..(i - 1) : r.v[j].name # attribute_name])
  ELSE Ok(PyNone)
get_attribute(ent, attribute_name) ==
  FirstNamed(get_attributes(ent, NotGiven, NotGiven, "list"), attribute_name)

\* get_properties(response_format)
get_properties(ent, response_format) ==
  get_attributes(ent, NotGiven, Given({"Relationship"}), response_format)

\* get_relationships(response_format)
get_relationships(ent, response_format) ==
  get_attributes(ent, Given({"Relationship"}), NotGiven, response_format)

\* the names in what get_attributes returned, in either format
ResultNames(v) ==
  {IF "key" \in DOMAIN v[i] THEN v[i].key ELSE v[i].name : i \in 1..Len(v)}

\* entity.dict(exclude_unset=True): the keys of __dict__ that are in
\* __fields_set__, each attribute as its own dict(exclude_unset=True)
EntityDict(ent) ==
  [key \in DictKeys(ent.d) \cap ent.fs |->
     IF key \in EntityFields THEN DictGet(ent.d, key)
     ELSE AttributeDict(DictGet(ent.d, key), TRUE)]

\* ContextEntity._validate_attributes(data): every key that is no declared
\* field is parsed as a ContextAttribute
ValidateAttributes(data) ==
  [key \in DOMAIN data \ EntityFields |-> ContextAttribute(data[key])]

\* ContextEntityKeyValues(id=id, type=type): both are FIWARE-safe strings
ContextEntityKeyValues(id, type) ==
  IF FiwareSafe(id) /\ FiwareSafe(type)
  THEN Ok([d |-> <<[key |-> "id", val |-> VStr(id)],
                   [key |-> "type", val |-> VStr(type)]>>,
           fs |-> {"id", "type"}])
  ELSE Err("ValidationError")

\* ContextEntity(id, type, **data) with the extra fields stored in the order
\* `order` (pydantic copies them from a set of keys): [ok, err, v]
WithExtras(base, attrs, order) ==
  IF base.ok
  THEN Ok([d |-> base.v.d \o [i \in 1..Len(order) |->
                                [key |-> order[i], val |-> attrs[order[i]].v]],
           fs |-> base.v.fs \cup DOMAIN attrs])
  ELSE base
EntityOf(id, type, attrs, order) ==
  IF \A key \in DOMAIN attrs : attrs[key].ok
  THEN WithExtras(ContextEntityKeyValues(id, type), attrs, order)
  ELSE Err("ValidationError")
ContextEntity(id, type, data, order) ==
  EntityOf(id, type, ValidateAttributes(data), order)

\* the orders in which a set of keys can be iterated
Orders(keys) ==
  {o \in [1..Cardinality(keys) -> keys] : \A i, j \in DOMAIN o : i # j => o[i] # o[j]}

\* pydantic's == on two entities: their dict() are equal (key order is ignored)
EntityEq(a, b) ==
  /\ DictKeys(a.d) = DictKeys(b.d)
  /\ \A key \in DictKeys(a.d) :
       IF key \in EntityFields THEN DictGet(a.d, key) = DictGet(b.d, key)
       ELSE AttributeEq(DictGet(a.d, key), DictGet(b.d, key))

\* =================================================================== state
VARIABLES
  entity,   \* the ContextEntity: d is its __dict__, fs its __fields_set__
  wire,     \* the flat JSON object the entity was constructed from
  last,     \* the call that has just returned: its arguments, the entity
            \* before it and how it ended
  ret,      \* what that call returned
  attr_in,  \* the (type, raw value) pair an attribute is constructed from
  attr1,    \* ContextAttribute(type, raw value)
  attr2,    \* ContextAttribute(type, value of attr1)
  pc,       \* "idle" or "returned" for the entity; the step of a construction
  model     \* the entity model create_context_entity_model has generated

vars == <<entity, wire, last, ret, attr_in, attr1, attr2, pc, model>>

\* ------------------------------------------------------------ input sets
AttrNames == {"temperature", "relation"}
ArgNames == AttrNames \cup EntityFields

\* sequences over S of length at most n
SeqUpTo(S, n) == UNION {[1..m -> S] : m \in 0..n}
Distinct(s) == \A i, j \in 1..Len(s) : i # j => s[i] # s[j]
Range(s) == {s[i] : i \in 1..Len(s)}

\* raw attribute values: scalars, lists of scalars and a tuple
RawScalars ==
  {VNone, VBool(TRUE), VBool(FALSE), VInt(0), VInt(20), VFloat(40), VFloat(41),
   VFloat(0 - 1), VStr(""), VStr("20"), VStr("20.5"), VStr("true"),
   VStr("OtherEntity")}
RawItems == {VInt(20), VFloat(41), VStr("20"), VBool(TRUE), VNone}
RawValues ==
  RawScalars \cup {VList(s) : s \in SeqUpTo(RawItems, MaxListLen)}
             \cup {VTuple(<<VInt(20), VInt(20)>>)}

\* the two entity objects of the tests: their id and type
EntityIds == {[id |-> "MyId", type |-> "MyType"], [id |-> "12", type |-> "Test"]}

\* the attributes given to add_attributes, as constructed objects
AddPool ==
  {ContextAttribute([value |-> VInt(20), type |-> "Text"]).v,
   ContextAttribute([value |-> VFloat(41), type |-> "MyCustomType"]).v}

\* the flat JSON objects the entities of Spec are constructed from
InitData ==
  {<<>>,
   [temperature |-> [value |-> VInt(20), type |-> "Number"],
    relation |-> [value |-> VStr("OtherEntity"), type |-> "Relationship"]],
   [temperature |-> [value |-> VFloat(41), type |-> "MyCustomType"]]}

\* values of the variables a specification does not use
NoRet == [ok |-> TRUE, v |-> <<>>]
NoAttr == [ok |-> FALSE, err |-> "unset"]
NoEntity == [d |-> <<>>, fs |-> {}]
NoCall == [op |-> "none", arg |-> <<>>, pre |-> NoEntity, ok |-> TRUE, err |-> ""]
NoInput == [type |-> "Text", raw |-> VNone]
NoModel == [fields |-> <<>>]

Call(op, arg, ok, err) ==
  [op |-> op, arg |-> arg, pre |-> entity, ok |-> ok, err |-> err]

\* ================================================= Spec: calls on an entity
Init ==
  /\ \E ids \in {[id |-> "MyId", type |-> "MyType"]}, data \in InitData :
       \E order \in Orders(DOMAIN data) :
         /\ entity = ContextEntity(ids.id, ids.type, data, order).v
         /\ wire = [id |-> ids.id, type |-> ids.type, data |-> data]
  /\ last = [op |-> "construct", arg |-> <<>>, pre |-> NoEntity, ok |-> TRUE, err |-> ""]
  /\ ret = NoRet
  /\ attr_in = NoInput /\ attr1 = NoAttr /\ attr2 = NoAttr
  /\ pc = "returned"
  /\ model = NoModel

\* the arguments of add_attributes
AddDictArgs ==
  {[form |-> "dict", items |-> [i \in 1..Len(ks) |-> [key |-> ks[i], val |-> as[i]]]] :
     <<ks, as>> \in {p \in SeqUpTo(ArgNames, MaxArgLen) \X SeqUpTo(AddPool, MaxArgLen) :
                       Len(p[1]) = Len(p[2]) /\ Distinct(p[1])}}
NamedPool ==
  {NamedContextAttribute(n, AttributeDict(a, TRUE)).v : n \in AttrNames, a \in AddPool}
AddListArgs == {[form |-> "list", items |-> s] : s \in SeqUpTo(NamedPool, MaxArgLen)}

\* the names add_attributes is given, in the order of the argument
AddNames(attrs) ==
  [i \in 1..Len(attrs.items) |->
     IF attrs.form = "list" THEN attrs.items[i].name ELSE attrs.items[i].key]

\* a mutating call returns: r is [ok, err, ent]
Mutated(op, attrs, r) ==
  /\ pc = "idle"
  /\ pc' = "returned"
  /\ entity' = r.ent
  /\ last' = Call(op, attrs, r.ok, r.err)
  /\ ret' = NoRet
  /\ UNCHANGED <<model, wire, attr_in, attr1, attr2>>

AddAttributes(attrs) == Mutated("add", attrs, add_attributes(entity, attrs))

\* the arguments of delete_attributes: a mapping, or a list whose entries are
\* names, NamedContextAttribute objects or anything else
DeleteAttr == ContextAttribute([value |-> VInt(20), type |-> "Text"]).v
DeleteDictArgs ==
  {[form |-> "dict", items |-> [i \in 1..Len(ks) |-> [key |-> ks[i], val |-> DeleteAttr]]] :
     ks \in {s \in SeqUpTo(ArgNames, MaxArgLen) : Distinct(s)}}
StrEntry(n) == [e |-> "str", name |-> n]
NamedEntry(n) ==
  [e |-> "named", attr |-> NamedContextAttribute(n, AttributeDict(DeleteAttr, TRUE)).v]
OtherEntry == [e |-> "other"]
DeleteEntries ==
  {StrEntry(n) : n \in ArgNames} \cup {NamedEntry(n) : n \in AttrNames} \cup {OtherEntry}
DeleteListArgs == {[form |-> "list", items |-> s] : s \in SeqUpTo(DeleteEntries, MaxArgLen)}

DeleteAttributes(attrs) == Mutated("delete", attrs, delete_attributes(entity, attrs))

\* the arguments of the read operations
TypeLists == {NotGiven, Given({}), Given({"Relationship"}), Given({"Text", "Number"})}
Formats == PropertyFormat \cup {"set"}

GetAttributes(whitelist, blacklist, response_format) ==
  /\ pc = "idle"
  /\ pc' = "returned"
  /\ ret' = get_attributes(entity, whitelist, blacklist, response_format)
  /\ last' = Call("get_attributes",
                  [wl |-> whitelist, bl |-> blacklist, form |-> response_format],
                  ret'.ok, IF ret'.ok THEN "" ELSE ret'.err)
  /\ UNCHANGED <<model, entity, wire, attr_in, attr1, attr2>>

GetProperties(response_format) ==
  /\ pc = "idle"
  /\ pc' = "returned"
  /\ ret' = get_properties(entity, response_format)
  /\ last' = Call("get_properties", [form |-> response_format],
                  ret'.ok, IF ret'.ok THEN "" ELSE ret'.err)
  /\ UNCHANGED <<model, entity, wire, attr_in, attr1, attr2>>

GetRelationships(response_format) ==
  /\ pc = "idle"
  /\ pc' = "returned"
  /\ ret' = get_relationships(entity, response_format)
  /\ last' = Call("get_relationships", [form |-> response_format],
                  ret'.ok, IF ret'.ok THEN "" ELSE ret'.err)
  /\ UNCHANGED <<model, entity, wire, attr_in, attr1, attr2>>

GetAttributeNames ==
  /\ pc = "idle"
  /\ pc' = "returned"
  /\ ret' = Ok(get_attribute_names(entity))
  /\ last' = Call("get_attribute_names", <<>>, TRUE, "")
  /\ UNCHANGED <<model, entity, wire, attr_in, attr1, attr2>>

GetAttribute(attribute_name) ==
  /\ pc = "idle"
  /\ pc' = "returned"
  /\ ret' = get_attribute(entity, attribute_name)
  /\ last' = Call("get_attribute", [name |-> attribute_name],
                  ret'.ok, IF ret'.ok THEN "" ELSE ret'.err)
  /\ UNCHANGED <<model, entity, wire, attr_in, attr1, attr2>>

\* the caller takes the result: the entity is ready for the next call
Return ==
  /\ pc = "returned"
  /\ pc' = "idle"
  /\ last' = NoCall
  /\ ret' = NoRet
  /\ UNCHANGED <<model, entity, wire, attr_in, attr1, attr2>>

Next ==
  \/ \E attrs \in AddDictArgs \cup AddListArgs : AddAttributes(attrs)
  \/ \E attrs \in DeleteDictArgs \cup DeleteListArgs : DeleteAttributes(attrs)
  \/ \E wl \in TypeLists, bl \in TypeLists, f \in Formats : GetAttributes(wl, bl, f)
  \/ \E f \in PropertyFormat : GetProperties(f)
  \/ \E f \in PropertyFormat : GetRelationships(f)
  \/ GetAttributeNames
  \/ \E n \in ArgNames : GetAttribute(n)
  \/ Return

Spec == Init /\ [][Next]_vars

\* ============================== SpecAttr: construction of one attribute
InitAttr ==
  /\ attr_in \in [type : AttrTypes, raw : RawValues]
  /\ attr1 = NoAttr /\ attr2 = NoAttr
  /\ pc = "input"
  /\ entity = NoEntity /\ wire = <<>> /\ last = NoCall /\ ret = NoRet
  /\ model = NoModel

\* attr1 = ContextAttribute(value=raw, type=type)
Construct ==
  /\ pc = "input"
  /\ attr1' = ContextAttribute([value |-> attr_in.raw, type |-> attr_in.type])
  /\ pc' = IF attr1'.ok THEN "built" ELSE "failed"
  /\ UNCHANGED <<model, entity, wire, last, ret, attr_in, attr2>>

\* attr2 = ContextAttribute(value=attr1.value, type=attr1.type)
Reconstruct ==
  /\ pc = "built"
  /\ attr2' = ContextAttribute([value |-> attr1.v.value, type |-> attr1.v.type])
  /\ pc' = "rebuilt"
  /\ UNCHANGED <<model, entity, wire, last, ret, attr_in, attr1>>

NextAttr == Construct \/ Reconstruct

SpecAttr == InitAttr /\ [][NextAttr]_vars

\* ================== SpecWire: an entity parsed from and written to the wire
\* JSON has no tuple
WireValues == {v \in RawValues : v.k # "tuple"}
WireAttrs == [value : WireValues, type : AttrTypes]
WireSecond ==
  {[value |-> VStr("OtherEntity"), type |-> "Relationship"],
   [value |-> VInt(20), type |-> "Number"],
   [value |-> VInt(20), type |-> "Text"]}

\* flat JSON objects with an id, a type and up to two {value, type} fields
WireData ==
  {<<>>} \cup {[temperature |-> a] : a \in WireAttrs}
         \cup {[temperature |-> a, relation |-> b] : a \in WireAttrs, b \in WireSecond}

InitWire ==
  /\ \E ids \in EntityIds, data \in WireData :
       wire = [id |-> ids.id, type |-> ids.type, data |-> data]
  /\ entity = NoEntity /\ last = NoCall /\ ret = NoRet
  /\ attr_in = NoInput /\ attr1 = NoAttr /\ attr2 = NoAttr
  /\ pc = "wire"
  /\ model = NoModel

\* entity = ContextEntity(**wire), the same as ContextEntity.parse_obj(wire)
Parsed(r) ==
  /\ pc = "wire"
  /\ entity' = IF r.ok THEN r.v ELSE entity
  /\ pc' = IF r.ok THEN "parsed" ELSE "failed"
  /\ UNCHANGED <<model, wire, last, ret, attr_in, attr1, attr2>>
FromWire(order) == Parsed(ContextEntity(wire.id, wire.type, wire.data, order))

\* ret = entity.dict(exclude_unset=True)
ToWire ==
  /\ pc = "parsed"
  /\ ret' = Ok(EntityDict(entity))
  /\ pc' = "serialized"
  /\ UNCHANGED <<model, entity, wire, last, attr_in, attr1, attr2>>

\* the extra fields of a flat object
ExtraData(obj) == [key \in DOMAIN obj \ EntityFields |-> obj[key]]

\* entity = ContextEntity(**ret): the output is parsed again
Reparsed(r) ==
  /\ pc = "serialized"
  /\ entity' = IF r.ok THEN r.v ELSE entity
  /\ last' = [op |-> "reparse", arg |-> <<>>, pre |-> entity, ok |-> r.ok,
              err |-> IF r.ok THEN "" ELSE r.err]
  /\ pc' = "reparsed"
  /\ UNCHANGED <<model, wire, ret, attr_in, attr1, attr2>>
Reparse(order) ==
  Reparsed(ContextEntity(ret.v["id"].s, ret.v["type"].s, ExtraData(ret.v), order))

NextWire ==
  \/ \E order \in Orders(DOMAIN wire.data) : FromWire(order)
  \/ ToWire
  \/ \E order \in Orders(DOMAIN ExtraData(ret.v)) : Reparse(order)

SpecWire == InitWire /\ [][NextWire]_vars
\* ------------------------------ Command, NamedCommand (context.py l.593-629)
\* type: DataType = Field(default=DataType.COMMAND, const=True): a given type is
\* a member of DataType and equals the default
CommandTypeField(data) ==
  IF "type" \notin DOMAIN data THEN Ok("command")
  ELSE IF data["type"] \in DataType /\ data["type"] = "command" THEN Ok("command")
  ELSE Err("ValidationError")

\* check_value: json.dumps(value); the value is returned as it is
check_value(v) == IF Serializable(v) THEN Ok(v) ELSE Err("TypeError")

\* a Command that accepts every value
CommandValueAny(data) == Ok(IF "value" \in DOMAIN data THEN data["value"] ELSE VNone)

\* value: Any; a value that is not given is None and not validated
CommandValueField(data) ==
  IF "value" \in DOMAIN data THEN check_value(data["value"]) ELSE Ok(VNone)

CommandOf(type_, value) ==
  IF type_.ok /\ value.ok THEN Ok([type |-> type_.v, value |-> value.v])
  ELSE Err("ValidationError")

\* Command(**data)
Command(data) == CommandOf(CommandTypeField(data), CommandValueField(data))

NamedCommandOf(name, cmd) ==
  IF cmd.ok /\ ProtectedName(name)
  THEN Ok([name |-> name, type |-> cmd.v.type, value |-> cmd.v.value])
  ELSE Err("ValidationError")

\* NamedCommand(**data): the name is required
NamedCommand(data) ==
  IF "name" \in DOMAIN data THEN NamedCommandOf(data["name"], Command(data))
  ELSE Err("ValidationError")

\* ------------------------------------ ActionType, Update (context.py l.546-590)
ActionType == {"append", "appendStrict", "update", "delete", "replace"}
Member(value) == [k |-> "enum", value |-> value]

\* Union[ActionType, str]: a member, the member of a value, or any other string
ActionField(v) ==
  IF v.k = "enum" THEN Ok(v)
  ELSE IF v.k = "str" /\ v.s \in ActionType THEN Ok(Member(v.s))
  ELSE IF v.k = "str" THEN Ok(v)
  ELSE Err("ValidationError")

\* check_action_type: ActionType(action), a ValueError for any other string
check_action_type(action) ==
  IF action.k = "enum" THEN Ok(action)
  ELSE IF action.s \in ActionType THEN Ok(Member(action.s))
  ELSE Err("ValueError")
CheckedAction(field) == IF field.ok THEN check_action_type(field.v) ELSE field

\* action_type = Field(alias='actionType'): the field is read from the key
\* actionType only and is required
UpdateAction(data) ==
  IF "actionType" \in DOMAIN data THEN CheckedAction(ActionField(data["actionType"]))
  ELSE Err("MissingError")

\* entities: List[ContextEntity], required
UpdateEntities(data) ==
  IF "entities" \in DOMAIN data THEN Ok(data["entities"]) ELSE Err("MissingError")

UpdateOf(action, entities) ==
  IF action.ok /\ entities.ok
  THEN Ok([action_type |-> action.v, entities |-> entities.v])
  ELSE Err("ValidationError")

\* Update(**data)
Update(data) == UpdateOf(UpdateAction(data), UpdateEntities(data))

\* ========================= SpecMeta: the metadata of an attribute, in its forms
MetaNames == {"info", "my name"}
\* the keyword arguments of a ContextMetadata
MetaData ==
  {[type |-> VStr("Text"), value |-> VStr("test")],
   [value |-> VInt(20)],
   [type |-> VStr("Test?"), value |-> VStr("test")],
   [type |-> VStr("Number"), value |-> VObject]}
WithName(name, data) ==
  [f \in DOMAIN data \cup {"name"} |-> IF f = "name" THEN name ELSE data[f]]
\* the keyword arguments of a NamedContextMetadata; one has no name
NamedMetaData ==
  {WithName(n, d) : n \in MetaNames, d \in MetaData} \cup {[value |-> VInt(20)]}

\* what is given as metadata: a mapping, one record, a list, or a string
MetaInputs ==
  {MdNamed(d) : d \in NamedMetaData}
    \cup {MdList(l) : l \in SeqUpTo(NamedMetaData, MaxListLen)}
    \cup {MdDict([i \in 1..Len(ks) |-> [key |-> ks[i], val |-> ds[i]]]) :
            <<ks, ds>> \in {p \in SeqUpTo(MetaNames, MaxListLen)
                                    \X SeqUpTo(MetaData, MaxListLen) :
                              Len(p[1]) = Len(p[2]) /\ Distinct(p[1])}}
    \cup {VStr("info")}

InitMeta ==
  /\ attr_in \in [type : {"Integer"}, raw : {VInt(20)}, md : MetaInputs]
  /\ attr1 = NoAttr /\ attr2 = NoAttr
  /\ pc = "input"
  /\ entity = NoEntity /\ wire = <<>> /\ last = NoCall /\ ret = NoRet
  /\ model = NoModel

\* attr1 = ContextAttribute(value=20, type='Integer', metadata=md)
ConstructMeta ==
  /\ pc = "input"
  /\ attr1' = ContextAttribute([value |-> attr_in.raw, type |-> attr_in.type,
                                metadata |-> attr_in.md])
  /\ pc' = IF attr1'.ok THEN "built" ELSE "failed"
  /\ UNCHANGED <<model, entity, wire, last, ret, attr_in, attr2>>

\* the stored mapping written as a list of NamedContextMetadata
AsNamedList(md) ==
  [i \in 1..Len(md.items) |-> WithName(md.items[i].key, md.items[i].val)]

\* attr2 = ContextAttribute(**attr1.dict(exclude={'metadata'}), metadata=md2)
Rebuild(form, md2) ==
  /\ pc = "built"
  /\ attr2' = ContextAttribute([value |-> attr1.v.value, type |-> attr1.v.type,
                                metadata |-> md2])
  /\ ret' = Ok(form)
  /\ pc' = "rebuilt"
  /\ UNCHANGED <<model, entity, wire, last, attr_in, attr1>>
RebuildFromDict == Rebuild("dict", attr1.v.metadata)
RebuildFromList == Rebuild("list", MdList(AsNamedList(attr1.v.metadata)))
RebuildFromNamed ==
  /\ pc = "built" /\ Len(attr1.v.metadata.items) = 1
  /\ Rebuild("named", MdNamed(AsNamedList(attr1.v.metadata)[1]))

NextMeta == ConstructMeta \/ RebuildFromDict \/ RebuildFromList \/ RebuildFromNamed

SpecMeta == InitMeta /\ [][NextMeta]_vars

\* ================== SpecNames: a string given to one FIWARE-safe field
\* the strings the tests list as valid, as invalid and as special
valid_strings == {"name", "test123", "3_:strange-Name!"}
invalid_strings == {"my name", "Test?", "#False", "/notvalid"}
special_strings == {"id", "type", "geo:location"}

\* every string of at most MaxNameLen characters of a small alphabet
NameAlphabet == {"a", ":", " ", "?", "&", "/", "#", "\t"}
RECURSIVE Words(_)
Words(n) ==
  IF n = 0 THEN {""}
  ELSE Words(n - 1) \cup {w \o c : w \in Words(n - 1), c \in NameAlphabet}
\* a name of max_length characters, and one that is a character longer
Twice(s) == s \o s
LongestName == Twice(Twice(Twice(Twice(Twice(Twice(Twice(Twice("a"))))))))
NameStrings ==
  valid_strings \cup invalid_strings \cup special_strings \cup Words(MaxNameLen)
    \cup {LongestName, LongestName \o "a"}

StandardFields ==
  {"ContextMetadata.type", "NamedContextMetadata.name", "ContextAttribute.type",
   "ContextEntityKeyValues.id", "ContextEntityKeyValues.type"}
ProtectedFields == {"NamedContextAttribute.name", "NamedCommand.name"}

\* attr_in: the field, the string, and whether the other fields are given too
InitNames ==
  /\ attr_in \in [field : StandardFields \cup ProtectedFields, s : NameStrings,
                  full : BOOLEAN]
  /\ attr1 = NoAttr /\ attr2 = NoAttr
  /\ pc = "input"
  /\ entity = NoEntity /\ wire = <<>> /\ last = NoCall /\ ret = NoRet
  /\ model = NoModel

Constructed(fields, r) ==
  /\ pc = "input" /\ attr_in.field \in fields
  /\ attr1' = r
  /\ pc' = IF r.ok THEN "built" ELSE "failed"
  /\ UNCHANGED <<model, entity, wire, last, ret, attr_in, attr2>>

NewMetadata ==
  Constructed({"ContextMetadata.type"},
              ContextMetadata(IF attr_in.full
                              THEN [type |-> VStr(attr_in.s), value |-> VStr("test")]
                              ELSE [type |-> VStr(attr_in.s)]))
NewNamedMetadata ==
  Constructed({"NamedContextMetadata.name"},
              NamedContextMetadata(IF attr_in.full
                                   THEN [name |-> attr_in.s, type |-> VStr("Text"),
                                         value |-> VStr("test")]
                                   ELSE [name |-> attr_in.s]))
NewAttribute ==
  Constructed({"ContextAttribute.type"},
              ContextAttribute(IF attr_in.full
                               THEN [type |-> attr_in.s, value |-> VInt(20)]
                               ELSE [type |-> attr_in.s]))
NewNamedAttribute ==
  Constructed({"NamedContextAttribute.name"},
              NamedContextAttribute(attr_in.s,
                                    IF attr_in.full
                                    THEN [type |-> "Number", value |-> VInt(20)]
                                    ELSE <<>>))
NewEntityKeyValues ==
  Constructed({"ContextEntityKeyValues.id", "ContextEntityKeyValues.type"},
              ContextEntityKeyValues(
                IF attr_in.field = "ContextEntityKeyValues.id" \/ attr_in.full
                THEN attr_in.s ELSE "name",
                IF attr_in.field = "ContextEntityKeyValues.type" \/ attr_in.full
                THEN attr_in.s ELSE "name"))
NewNamedCommand ==
  Constructed({"NamedCommand.name"},
              NamedCommand(IF attr_in.full
                           THEN [name |-> attr_in.s, value |-> VList(<<VInt(5)>>)]
                           ELSE [name |-> attr_in.s]))

NextNames ==
  \/ NewMetadata \/ NewNamedMetadata \/ NewAttribute \/ NewNamedAttribute
  \/ NewEntityKeyValues \/ NewNamedCommand

SpecNames == InitNames /\ [][NextNames]_vars

\* ============ SpecRequests: the construction of an Update and of a Command
\* the entities of an update
UpdateEntityPool ==
  {ContextEntity("1", "myType", <<>>, <<>>).v,
   ContextEntity("MyId", "MyType",
                 [temperature |-> [value |-> VInt(20), type |-> "Number"]],
                 <<"temperature">>).v}
\* what is given as the action: members, their values and other strings
ActionInputs ==
  {Member(a) : a \in ActionType} \cup {VStr(a) : a \in ActionType}
    \cup {VStr("bogus"), VStr("test"), VStr("APPEND"), VNone}
UpdateInputs ==
  {[actionType |-> a, entities |-> es] :
     a \in ActionInputs, es \in SeqUpTo(UpdateEntityPool, MaxArgLen)}
    \cup {[action_type |-> a, entities |-> es] :
            a \in ActionInputs, es \in SeqUpTo(UpdateEntityPool, MaxArgLen)}
    \cup {[actionType |-> a] : a \in ActionInputs}
    \cup {[entities |-> es] : es \in SeqUpTo(UpdateEntityPool, MaxArgLen)}

\* the keyword arguments of a Command
CommandValues == {VNone, VInt(0), VInt(5), VStr("on"), VObject} \cup
                 {VList(l) : l \in SeqUpTo({VInt(5), VInt(0), VObject}, MaxListLen)}
CommandTypes == DataType \cup {"cmd"}
CommandInputs ==
  {[value |-> v] : v \in CommandValues}
    \cup {[type |-> t, value |-> v] : t \in CommandTypes, v \in CommandValues}
    \cup {[type |-> t] : t \in CommandTypes} \cup {<<>>}

InitRequests ==
  /\ attr_in \in {[model |-> "Update", data |-> d] : d \in UpdateInputs}
                   \cup {[model |-> "Command", data |-> d] : d \in CommandInputs}
  /\ attr1 = NoAttr /\ attr2 = NoAttr
  /\ pc = "input"
  /\ entity = NoEntity /\ wire = <<>> /\ last = NoCall /\ ret = NoRet
  /\ model = NoModel

Requested(cls, r) ==
  /\ pc = "input" /\ attr_in.model = cls
  /\ attr1' = r
  /\ pc' = IF r.ok THEN "built" ELSE "failed"
  /\ UNCHANGED <<model, entity, wire, last, ret, attr_in, attr2>>
NewUpdate == Requested("Update", Update(attr_in.data))
NewCommand == Requested("Command", Command(attr_in.data))

NextRequests == NewUpdate \/ NewCommand

SpecRequests == InitRequests /\ [][NextRequests]_vars

\* ============== SpecFactory: an entity model generated from a sample object
\* ------------------------- create_context_entity_model (context.py l.482-521)
\* key not in ContextEntity.__fields__
NotReserved(key) == key \notin EntityFields

\* a generated model that declares no field
create_context_entity_model_no_fields(data, keys) == [fields |-> <<>>]

\* create_context_entity_model(data=data): every key of data (in the order
\* `keys` of the dict) that is no field of ContextEntity becomes a required
\* ContextAttribute field of a model derived from ContextEntity
create_context_entity_model(data, keys) == [fields |-> SelectSeq(keys, NotReserved)]

\* the declared fields first, then the extra fields in the order `order`
FieldOrder(fields, order) ==
  LET Extra(key) == \A i \in 1..Len(fields) : fields[i] # key
  IN  fields \o SelectSeq(order, Extra)

\* generated(id, type, **data): the __init__ of ContextEntity parses every
\* attribute, then pydantic asks for every declared field
GeneratedEntity(generated, id, type, data, order) ==
  LET attrs == ValidateAttributes(data)
  IN  IF \E key \in DOMAIN attrs : ~attrs[key].ok THEN EntityOf(id, type, attrs, order)
      ELSE IF \E i \in 1..Len(generated.fields) : generated.fields[i] \notin DOMAIN data
      THEN Err("ValidationError")
      ELSE EntityOf(id, type, attrs, FieldOrder(generated.fields, order))

\* a flat object with the keys id and type and one key per attribute
FlatOf(w) ==
  [key \in EntityFields \cup DOMAIN w.data |->
     IF key = "id" THEN VStr(w.id) ELSE IF key = "type" THEN VStr(w.type)
     ELSE w.data[key]]

SampleAttrs ==
  {[value |-> VInt(20), type |-> "Number"],
   [value |-> VStr("OtherEntity"), type |-> "Relationship"],
   [value |-> VInt(20), type |-> "Text"],
   [value |-> VFloat(41), type |-> "Integer"],
   [value |-> VStr("a"), type |-> "Array"]}
SampleData ==
  {<<>>} \cup {[temperature |-> a] : a \in SampleAttrs}
         \cup {[relation |-> a] : a \in SampleAttrs}
         \cup {[temperature |-> a, relation |-> b] : a \in SampleAttrs, b \in SampleAttrs}
FlatSample(data) == FlatOf([id |-> "MyId", type |-> "MyType", data |-> data])
Sampled(sample) == {[data |-> sample, keys |-> keys] : keys \in Orders(DOMAIN sample)}

InitFactory ==
  /\ \E data \in SampleData : attr_in \in Sampled(FlatSample(data))
  /\ \E data \in SampleData : wire = [id |-> "MyId", type |-> "MyType", data |-> data]
  /\ entity = NoEntity /\ last = NoCall /\ ret = NoRet
  /\ attr1 = NoAttr /\ attr2 = NoAttr
  /\ pc = "sample"
  /\ model = NoModel

\* model = create_context_entity_model(data=sample)
CreateModel ==
  /\ pc = "sample"
  /\ model' = create_context_entity_model(attr_in.data, attr_in.keys)
  /\ pc' = "wire"
  /\ UNCHANGED <<entity, wire, last, ret, attr_in, attr1, attr2>>

\* entity = model(**wire), the same as model.parse_obj(wire)
Generated(r) ==
  /\ pc = "wire"
  /\ entity' = IF r.ok THEN r.v ELSE entity
  /\ pc' = IF r.ok THEN "parsed" ELSE "failed"
  /\ UNCHANGED <<model, wire, last, ret, attr_in, attr1, attr2>>
Instantiate(order) ==
  Generated(GeneratedEntity(model, wire.id, wire.type, wire.data, order))

NextFactory ==
  \/ CreateModel
  \/ \E order \in Orders(DOMAIN wire.data) : Instantiate(order)
  \/ ToWire

SpecFactory == InitFactory /\ [][NextFactory]_vars

\* ================================================================= claims
Names(ent) == get_attribute_names(ent)
Returned(op) == pc = "returned" /\ last.op = op

\* C1: after any sequence of add_attributes and delete_attributes calls, with
\* any names as arguments and whether the calls succeed or fail, the entity
\* still has an id and a type, equal to the values given at construction.
C1_IdAndTypeKept ==
  pc \in {"idle", "returned"} =>
    /\ DictHas(entity.d, "id") /\ DictHas(entity.d, "type")
    /\ DictGet(entity.d, "id") = VStr(wire.id)
    /\ DictGet(entity.d, "type") = VStr(wire.type)

\* the flat object `out` equals the wire object w (Python's == on the values)
WireEq(out, w) ==
  /\ DOMAIN out = EntityFields \cup DOMAIN w.data
  /\ out["id"] = VStr(w.id) /\ out["type"] = VStr(w.type)
  /\ \A k \in DOMAIN w.data :
       /\ DOMAIN out[k] = DOMAIN w.data[k]
       /\ out[k]["type"] = w.data[k]["type"]
       /\ PyEq(out[k]["value"], w.data[k]["value"])

\* the flat object `out` is the wire object w with every value coerced
WireEqCoerced(out, w) ==
  /\ DOMAIN out = EntityFields \cup DOMAIN w.data
  /\ out["id"] = VStr(w.id) /\ out["type"] = VStr(w.type)
  /\ \A k \in DOMAIN w.data :
       /\ DOMAIN out[k] = DOMAIN w.data[k]
       /\ out[k]["type"] = w.data[k]["type"]
       /\ out[k]["value"] = ContextAttribute(w.data[k]).v.value

\* two flat outputs are equal (Python's == on the values)
WireEqOut(a, b) ==
  /\ DOMAIN a = DOMAIN b
  /\ \A k \in DOMAIN a \cap EntityFields : a[k] = b[k]
  /\ \A k \in DOMAIN a \ EntityFields :
       /\ DOMAIN a[k] = DOMAIN b[k]
       /\ a[k]["type"] = b[k]["type"]
       /\ PyEq(a[k]["value"], b[k]["value"])

\* C2 as stated: parsing a flat JSON object with {value, type} fields into a
\* ContextEntity and serializing it back (dict with exclude_unset) yields an
\* object equal to the input, and parsing the output again an equal entity.
C2_RoundTripExact ==
  /\ pc \in {"serialized", "reparsed"} => WireEq(ret.v, wire)
  /\ pc = "reparsed" => last.ok /\ EntityEq(entity, last.pre)

\* C2 as amended: the output has the id, the type, the field names and the
\* attribute types of the input, every value is the value the attribute stores
\* after coercion, and parsing the output again yields an equal entity that
\* serializes to the same output.
C2_RoundTripCoerced ==
  /\ pc \in {"serialized", "reparsed"} => WireEqCoerced(ret.v, wire)
  /\ pc = "reparsed" =>
       /\ last.ok
       /\ EntityEq(entity, last.pre)
       /\ WireEqOut(EntityDict(entity), ret.v)

C2_Witness ==
  /\ pc = "reparsed" /\ last.ok
  /\ DOMAIN wire.data = {"temperature", "relation"}
  /\ wire.data["temperature"] = [value |-> VInt(20), type |-> "Number"]
  /\ wire.data["relation"] = [value |-> VStr("OtherEntity"), type |-> "Relationship"]

\* C3: get_properties returns all attributes whose type is not Relationship and
\* get_relationships exactly those whose type is Relationship, so every name of
\* get_attribute_names() is in exactly one of the two results.
C3_PropertiesAndRelationships ==
  (Returned("get_properties") /\ ret.ok) =>
    /\ ResultNames(ret.v) =
         {n \in Names(entity) : DictGet(entity.d, n).type # "Relationship"}
    /\ \A n \in Names(entity) :
         (n \in ResultNames(ret.v))
           # (n \in ResultNames(get_relationships(entity, last.arg.form).v))

\* C4: after successful add_attributes and delete_attributes calls,
\* get_attribute_names() is exactly the set of names given at construction or
\* added and not deleted afterwards, and it never contains id or type.
C4_AttributeNames ==
  /\ Returned("construct") => Names(entity) = DOMAIN wire.data
  /\ (Returned("add") /\ last.ok) =>
       Names(entity) = Names(last.pre) \cup Range(AddNames(last.arg))
  /\ (Returned("delete") /\ last.ok) =>
       Names(entity) = Names(last.pre) \ Range(DeleteNames(last.arg))
  /\ Returned("get_attribute_names") => ret.v \cap EntityFields = {}
  /\ pc \in {"idle", "returned"} => Names(entity) \cap EntityFields = {}

C4_Witness ==
  /\ Returned("delete") /\ last.ok
  /\ Names(last.pre) = {"temperature", "relation"}
  /\ Range(DeleteNames(last.arg)) = {"temperature"}
  /\ Names(entity) = {"relation"}

\* the argument forms of delete_attributes: a mapping, a list of names, a list
\* of NamedContextAttribute, or a list that mixes its entries
DeleteForm(attrs) ==
  IF attrs.form = "dict" THEN "dict"
  ELSE IF \A i \in 1..Len(attrs.items) : attrs.items[i].e = "str" THEN "str"
  ELSE IF \A i \in 1..Len(attrs.items) : attrs.items[i].e = "named" THEN "named"
  ELSE "mixed"

\* the names an argument of delete_attributes is meant to name, read off the
\* argument itself
GivenName(attrs, i) ==
  IF attrs.form = "dict" THEN attrs.items[i].key
  ELSE IF attrs.items[i].e = "str" THEN attrs.items[i].name
  ELSE IF attrs.items[i].e = "named" THEN attrs.items[i].attr.name
  ELSE ""
GivenNames(attrs) ==
  {GivenName(attrs, i) : i \in {j \in 1..Len(attrs.items) :
                                  attrs.form = "dict" \/ attrs.items[j].e # "other"}}
OnceEach(attrs) ==
  \A i, j \in 1..Len(attrs.items) : i # j => GivenName(attrs, i) # GivenName(attrs, j)

\* the arguments in one of the three forms that name each of `names` once
PureDeleteArgs(names) ==
  {a \in DeleteDictArgs \cup DeleteListArgs :
     DeleteForm(a) # "mixed" /\ OnceEach(a) /\ GivenNames(a) = names}

\* C5: delete_attributes given a mapping, a list of NamedContextAttribute or a
\* list of name strings that names a set of existing attributes, each once,
\* succeeds and removes every named attribute; the three forms leave the
\* entity in the same state, and deleting all attributes leaves no name.
C5_DeleteForms ==
  (/\ Returned("delete")
   /\ DeleteForm(last.arg) # "mixed" /\ OnceEach(last.arg)
   /\ GivenNames(last.arg) \subseteq Names(last.pre)) =>
    /\ last.ok
    /\ Names(entity) \cap GivenNames(last.arg) = {}
    /\ GivenNames(last.arg) = Names(last.pre) => Names(entity) = {}
    /\ \A a \in PureDeleteArgs(GivenNames(last.arg)) :
         delete_attributes(last.pre, a) = [ok |-> TRUE, err |-> "", ent |-> entity]

C5_Witness ==
  /\ Returned("delete") /\ last.ok
  /\ DeleteForm(last.arg) = "named" /\ OnceEach(last.arg)
  /\ GivenNames(last.arg) = {"temperature", "relation"}
  /\ Names(last.pre) = {"temperature", "relation"}
  /\ Names(entity) = {}
  /\ {DeleteForm(a) : a \in PureDeleteArgs(GivenNames(last.arg))} = {"dict", "str", "named"}

\* the attribute an argument of add_attributes supplies at position i
Supplied(attrs, i) ==
  IF attrs.form = "list"
  THEN [type |-> attrs.items[i].type, value |-> attrs.items[i].value,
        metadata |-> attrs.items[i].metadata]
  ELSE attrs.items[i].val
LastIndex(attrs, name) ==
  CHOOSE i \in 1..Len(attrs.items) :
    /\ AddNames(attrs)[i] = name
    /\ \A j \in (i + 1)..Len(attrs.items) : AddNames(attrs)[j] # name

\* the same names and attributes in the other form of the argument
OtherForm(attrs) ==
  IF attrs.form = "list"
  THEN [form |-> "dict",
        items |-> [i \in 1..Len(attrs.items) |->
                     [key |-> attrs.items[i].name,
                      val |-> ContextAttribute(Supplied(attrs, i)).v]]]
  ELSE [form |-> "list",
        items |-> [i \in 1..Len(attrs.items) |->
                     NamedContextAttribute(attrs.items[i].key,
                                           AttributeDict(attrs.items[i].val, TRUE)).v]]
AddedEq(r, ent) == r.ok /\ EntityEq(r.ent, ent)

C8_WhitelistOrBlacklist ==
  (Returned("get_attributes") /\ last.arg.form \in PropertyFormat) =>
    IF last.arg.wl.given /\ last.arg.bl.given
    THEN ~last.ok /\ last.err = "AssertionError"
    ELSE last.err # "AssertionError"

C8_Witness ==
  /\ Returned("get_attributes") /\ last.arg.form = "dict"
  /\ last.arg.wl = Given({"Relationship"}) /\ last.arg.bl = Given({"Text", "Number"})
  /\ ~last.ok /\ last.err = "AssertionError"

C10_TextIsStrOfRaw ==
  (pc = "built" /\ attr_in.type = "Text" /\ Truthy(attr_in.raw)
     /\ attr_in.raw.k # "tuple") =>
    attr1.v.value =
      IF attr_in.raw.k = "list"
      THEN VList([i \in 1..Len(attr_in.raw.items) |->
                    VStr(PyStr(attr_in.raw.items[i]))])
      ELSE VStr(PyStr(attr_in.raw))

\* the representation a numeric or boolean type casts to
TargetKind(type_) ==
  CASE type_ = "Boolean" -> "bool"
    [] type_ \in {"Number", "Float"} -> "float"
    [] OTHER -> "int"
Built(types) == pc = "built" /\ attr_in.type \in types /\ attr_in.raw.k # "none"

\* C11: under Boolean, Number, Float and Integer the stored value is the raw
\* value cast to bool, float, float and int; a list is cast element by
\* element into a list of the same length of that representation.
C11_CastToTarget ==
  Built({"Boolean", "Number", "Float", "Integer"}) =>
    IF attr_in.raw.k \in {"list", "tuple"}
    THEN /\ attr1.v.value.k = "list"
         /\ Len(attr1.v.value.items) = Len(attr_in.raw.items)
         /\ \A i \in 1..Len(attr1.v.value.items) :
              attr1.v.value.items[i].k = TargetKind(attr_in.type)
    ELSE /\ attr1.v.value.k = TargetKind(attr_in.type)
         /\ Cast(attr_in.type, attr_in.raw).ok =>
              PyEq(attr1.v.value, Cast(attr_in.type, attr_in.raw).v)

\* C12: under Array the construction succeeds only for a list, which is stored
\* unchanged; every other raw value that is present fails with a type error.
C12_ArrayOnlyLists ==
  /\ Built({"Array"}) =>
       /\ attr_in.raw.k \in {"list", "tuple"}
       /\ attr1.v.value = VList(attr_in.raw.items)
  /\ (pc = "failed" /\ attr_in.type = "Array") => attr_in.raw.k \notin {"list", "none"}
  /\ (pc \in {"built", "failed"} /\ attr_in.type = "Array"
        /\ attr_in.raw.k \notin {"list", "tuple", "none"}) => pc = "failed"

\* the names a metadata input gives, and the record it gives last for a name
InputNames(md) ==
  CASE md.k = "dict" -> {md.items[i].key : i \in 1..Len(md.items)}
    [] md.k = "named" -> {md.md["name"]}
    [] md.k = "list" -> {md.items[i]["name"] : i \in 1..Len(md.items)}
InputLast(md, name) ==
  CASE md.k = "dict" ->
         md.items[CHOOSE i \in 1..Len(md.items) : md.items[i].key = name].val
    [] md.k = "named" -> md.md
    [] md.k = "list" ->
         md.items[CHOOSE i \in 1..Len(md.items) :
                    /\ md.items[i]["name"] = name
                    /\ \A j \in (i + 1)..Len(md.items) : md.items[j]["name"] # name]
FieldOr(data, f) == IF f \in DOMAIN data THEN data[f] ELSE VNone

NameTried == pc \in {"built", "failed"} /\ "field" \in DOMAIN attr_in

\* C14: every string that contains whitespace or one of & ? / # is rejected
\* with a validation error by every FIWARE-safe field, and no object is made.
C14_UnsafeStringsRejected ==
  (NameTried /\ Chars(attr_in.s) \cap {" ", "\t", "&", "?", "/", "#"} # {}) =>
    pc = "failed" /\ ~attr1.ok /\ attr1.err = "ValidationError"

Requesting(cls) ==
  pc \in {"built", "failed"} /\ "model" \in DOMAIN attr_in /\ attr_in.model = cls
\* the action an Update is given, under the name action_type or the key actionType
GivenAction(data) ==
  IF "actionType" \in DOMAIN data THEN data["actionType"] ELSE data["action_type"]
ActionValue(a) == IF a.k = "enum" THEN a.value ELSE IF a.k = "str" THEN a.s ELSE ""

\* C17: an Update given entities and an action, as action_type or under the
\* wire key actionType, is constructed exactly when the action is one of
\* append, appendStrict, update, delete, replace, and then stores the action as
\* the enumeration member; any other action fails with a value error.
C17_UpdateActionChecked ==
  (Requesting("Update") /\ "entities" \in DOMAIN attr_in.data
     /\ DOMAIN attr_in.data \cap {"actionType", "action_type"} # {}) =>
    IF ActionValue(GivenAction(attr_in.data)) \in ActionType
    THEN /\ pc = "built"
         /\ attr1.v.action_type = Member(ActionValue(GivenAction(attr_in.data)))
    ELSE pc = "failed" /\ attr1.err \in {"ValidationError", "ValueError"}

\* C18: a Command is constructed exactly when its type is omitted or "command"
\* and its value can be written as JSON; it then has the type "command" and
\* the value given. With any other type, or a value that cannot be written as
\* JSON, the construction fails and no Command is produced.
C18_CommandTypeAndValue ==
  Requesting("Command") =>
    LET data == attr_in.data
        typeOk == "type" \in DOMAIN data => data["type"] = "command"
        given == IF "value" \in DOMAIN data THEN data["value"] ELSE VNone
    IN  IF typeOk /\ Serializable(given)
        THEN pc = "built" /\ attr1.ok /\ attr1.v = [type |-> "command", value |-> given]
        ELSE pc = "failed" /\ ~attr1.ok /\ attr1.err = "ValidationError"
C18_Witness ==
  /\ Requesting("Command") /\ pc = "failed"
  /\ attr_in.data = [type |-> "command", value |-> VList(<<VInt(5), VObject>>)]

Sampling == "data" \in DOMAIN attr_in /\ "keys" \in DOMAIN attr_in
FromSample == Sampling /\ FlatOf(wire) = attr_in.data
LacksAttribute == Sampling /\ (DOMAIN attr_in.data \ EntityFields) \ DOMAIN wire.data # {}
Instantiated == Sampling /\ pc \in {"parsed", "failed", "serialized"}
FieldsDeclared ==
  (Sampling /\ pc # "sample") =>
    {model.fields[i] : i \in 1..Len(model.fields)} = DOMAIN attr_in.data \ EntityFields

\* C19 as stated: the generated type declares every non-reserved key of the
\* sample and skips id and type; an instance constructed from the sample
\* itself succeeds and serializes back to the sample, and an instance that
\* lacks one of the sample's attribute names fails.
C19_SampleRoundTrip ==
  /\ FieldsDeclared
  /\ (Instantiated /\ FromSample) => pc # "failed"
  /\ (pc = "serialized" /\ FromSample) => WireEq(ret.v, wire)
  /\ (Instantiated /\ LacksAttribute) => pc = "failed"

\* C19 as amended: the generated type declares every non-reserved key of the
\* sample and skips id and type; an instance constructed from the sample
\* itself succeeds exactly when ContextAttribute accepts every attribute of the
\* sample, and then serializes to the sample with every value coerced; an
\* instance that lacks one of the sample's attribute names fails.
C19_SampleRoundTripCoerced ==
  /\ FieldsDeclared
  /\ (Instantiated /\ FromSample) =>
       (pc = "failed" <=> \E key \in DOMAIN wire.data : ~ContextAttribute(wire.data[key]).ok)
  /\ (pc = "serialized" /\ FromSample) => WireEqCoerced(ret.v, wire)
  /\ (Instantiated /\ LacksAttribute) => pc = "failed"
C19_Witness ==
  /\ pc = "serialized" /\ FromSample
  /\ attr_in.keys = <<"temperature", "id", "relation", "type">>
  /\ wire.data["temperature"] = [value |-> VInt(20), type |-> "Number"]
  /\ wire.data["relation"] = [value |-> VStr("OtherEntity"), type |-> "Relationship"]

\* a raw value that is present and not empty although it is falsy: 0, 0.0, False
FalsyPresent(raw) == raw.k \in {"bool", "int", "float"} /\ ~Truthy(raw)

\* C20: coercion is skipped only for a raw value that is empty or absent, and
\* the value then stays None; a raw value that is present, 0 and False
\* included, is coerced by the rule of its type: stored as a string under
\* Text, rejected as a non-list under Array.
C20_FalsyValuesCoerced ==
  /\ (pc \in {"built", "failed"} /\ attr_in.raw.k = "none") =>
       pc = "built" /\ attr1.v.value = VNone
  /\ (pc \in {"built", "failed"} /\ FalsyPresent(attr_in.raw) /\ attr_in.type = "Text") =>
       pc = "built" /\ attr1.v.value.k = "str"
  /\ (pc \in {"built", "failed"} /\ FalsyPresent(attr_in.raw) /\ attr_in.type = "Array") =>
       pc = "failed"

\* C21: a mutation that fails leaves the entity as it was: after a failing
\* delete_attributes or add_attributes the entity has the id, the type and the
\* attributes it had before the call, also those named before the failing
\* entry of the argument.
C21_FailedMutationKeepsEntity ==
  ((Returned("add") \/ Returned("delete")) /\ ~last.ok) =>
    /\ DictKeys(entity.d) = DictKeys(last.pre.d)
    /\ \A key \in DictKeys(entity.d) : DictGet(entity.d, key) = DictGet(last.pre.d, key)

\* the attributes of an entity whose type is a string outside the enumeration
FreeForm(ent) ==
  {key \in DictKeys(ent.d) \ EntityFields : DictGet(ent.d, key).type \notin DataType}
TypedIn(ent, types) ==
  {key \in DictKeys(ent.d) \ EntityFields : DictGet(ent.d, key).type \in types}
Reading == pc = "returned" /\ last.ok

\* C22: get_attributes returns the attributes whose type is in a list of
\* DataType members, also when no whitelist and no blacklist is given: an
\* attribute of a free-form type is in get_attribute_names() but in no result
\* of get_attributes, get_properties or get_relationships, in either format,
\* and get_attribute returns None for it as for a name that does not exist.
C22_FreeFormNeverReturned ==
  /\ (Reading /\ last.op = "get_attributes") =>
       /\ ResultNames(ret.v) = TypedIn(entity, AttributeTypes(last.arg.wl, last.arg.bl))
       /\ ResultNames(ret.v) \cap FreeForm(entity) = {}
  /\ (Reading /\ last.op = "get_properties") =>
       ResultNames(ret.v) = TypedIn(entity, DataType \ {"Relationship"})
  /\ (Reading /\ last.op = "get_relationships") =>
       ResultNames(ret.v) = TypedIn(entity, {"Relationship"})
  /\ (Reading /\ last.op = "get_attribute_names") => FreeForm(entity) \subseteq ret.v
  /\ (pc = "returned" /\ last.op = "get_attribute"
        /\ (last.arg.name \in FreeForm(entity) \/ ~DictHas(entity.d, last.arg.name))) =>
       last.ok /\ ret.v = PyNone
C22_Witness ==
  /\ Reading /\ last.op = "get_attributes"
  /\ ~last.arg.wl.given /\ ~last.arg.bl.given /\ last.arg.form = "dict"
  /\ FreeForm(entity) = {"temperature"}
  /\ ResultNames(ret.v) = {"relation"}

\* the entries of __dict__ under the keys `keys` are the same in both entities
SameAt(a, b, keys) ==
  \A key \in keys :
    /\ DictHas(a.d, key) = DictHas(b.d, key)
    /\ DictHas(a.d, key) => DictGet(a.d, key) = DictGet(b.d, key)
ReadOps ==
  {"get_attributes", "get_attribute_names", "get_attribute", "get_properties",
   "get_relationships"}

\* C23: a successful add_attributes changes only the attributes it names and
\* a successful delete_attributes removes only the attributes it names: id,
\* type and every other attribute are as before the call; the read operations
\* leave the entity as it is.
C23_Frame ==
  /\ (Returned("add") /\ last.ok) =>
       /\ DictKeys(entity.d) = DictKeys(last.pre.d) \cup Range(AddNames(last.arg))
       /\ SameAt(entity, last.pre,
                 EntityFields \cup (DictKeys(last.pre.d) \ Range(AddNames(last.arg))))
  /\ (Returned("delete") /\ last.ok) =>
       /\ Names(entity) = Names(last.pre) \ GivenNames(last.arg)
       /\ SameAt(entity, last.pre,
                 EntityFields \cup (Names(last.pre) \ GivenNames(last.arg)))
  /\ (pc = "returned" /\ last.op \in ReadOps) => entity = last.pre
====
